---------------------------- MODULE Spec2Model ----------------------------
(***************************************************************************)
(* Static compatibility checks of cosmwasm/packages/sgx-vm                 *)
(* (src/compatability.rs): check_wasm and the four validators it calls.    *)
(*                                                                         *)
(* Strings are TLA+ strings; messages are built with \o exactly as the     *)
(* format! calls build them, so "starts with" is a real prefix test.       *)
(***************************************************************************)
EXTENDS Integers, Sequences, FiniteSets, TLC

(***************************************************************************)
(* Bounds of the explored inputs.                                          *)
(***************************************************************************)
MaxMemories == 2
MaxExports == 2
MaxImports == 2

(***************************************************************************)
(* Rust values: Option, Result, VmError.                                   *)
(***************************************************************************)
None == <<"None">>
Some(x) == <<"Some", x>>

static_validation_err(msg) == [kind |-> "StaticValidationErr", msg |-> msg]

Ok == <<"Ok">>
Err(e) == <<"Err", e>>
is_ok(r) == r[1] = "Ok"
is_err(r) == r[1] = "Err"
msg_of(r) == r[2].msg

(***************************************************************************)
(* Strings: prefix test, byte order (String: Ord), Debug rendering.        *)
(***************************************************************************)
starts_with(s, prefix) ==
    /\ Len(s) >= Len(prefix)
    /\ SubSeq(s, 1, Len(prefix)) = prefix

\* the printable ASCII characters in byte order: bytes 32..95 and 97..126
AsciiUpper ==
    " !\"#$%&'(" \o ")*+,-./0123456789:;<=>?@ABCDEFGHIJKLMNOPQRSTUVWXYZ[\\]^_"
AsciiLower == "abcdefghijklmnopqrstuvwxyz{|}~"

IndexIn(table, c) == CHOOSE i \in 1..Len(table) : SubSeq(table, i, i) = c

Byte(c) ==
    IF \E i \in 1..Len(AsciiLower) : SubSeq(AsciiLower, i, i) = c
    THEN 96 + IndexIn(AsciiLower, c)
    ELSE 31 + IndexIn(AsciiUpper, c)

RECURSIVE str_lt(_, _)
str_lt(a, b) ==
    IF Len(b) = 0 THEN FALSE
    ELSE IF Len(a) = 0 THEN TRUE
    ELSE IF Head(a) = Head(b) THEN str_lt(Tail(a), Tail(b))
    ELSE Byte(Head(a)) < Byte(Head(b))

\* char::escape_debug of one character inside a string literal
escape_char(c) ==
    IF c = "\"" THEN "\\\""
    ELSE IF c = "\\" THEN "\\\\"
    ELSE c

\* the escaped characters of s, concatenated (a function, split in halves:
\* the argument is evaluated once and the recursion stays shallow)
escape_debug[s \in STRING] ==
    IF Len(s) = 0 THEN ""
    ELSE IF Len(s) = 1 THEN escape_char(s)
    ELSE LET half == Len(s) \div 2 IN
         escape_debug[SubSeq(s, 1, half)] \o escape_debug[SubSeq(s, half + 1, Len(s))]

\* {:?} of a str
debug_str(s) == "\"" \o escape_debug[s] \o "\""

RECURSIVE join_debug(_)
join_debug(items) ==
    IF Len(items) = 0 THEN ""
    ELSE IF Len(items) = 1 THEN items[1]
    ELSE items[1] \o ", " \o join_debug(Tail(items))

\* {:?} of a slice or Vec of str
debug_list(strs) == "[" \o join_debug([i \in 1..Len(strs) |-> debug_str(strs[i])]) \o "]"

\* {:?} of a BTreeSet of str, given as its ascending sequence
debug_set(strs) == "{" \o join_debug([i \in 1..Len(strs) |-> debug_str(strs[i])]) \o "}"

(***************************************************************************)
(* Generic helpers.                                                        *)
(***************************************************************************)
SeqsUpTo(S, n) == UNION {[1..k -> S] : k \in 0..n}

Range(s) == {s[i] : i \in 1..Len(s)}

contains(list, x) == \E i \in 1..Len(list) : list[i] = x

\* all orders in which a hash set may hand out its elements
IterOrders(S) == {o \in [1..Cardinality(S) -> S] : Range(o) = S}

(***************************************************************************)
(* Build configuration: the cargo features that gate entries of the        *)
(* supported-import lists.                                                 *)
(***************************************************************************)
CargoFeatures == {"iterator", "debug-print"}

SUPPORTED_IMPORTS_V010(cfg) ==
    << "env.db_read",
       "env.db_write",
       "env.db_remove",
       "env.canonicalize_address",
       "env.humanize_address",
       "env.query_chain",
       "env.secp256k1_verify",
       "env.secp256k1_recover_pubkey",
       "env.secp256k1_sign",
       "env.ed25519_verify",
       "env.ed25519_batch_verify",
       "env.ed25519_sign" >>
    \o (IF "iterator" \in cfg THEN <<"env.db_scan", "env.db_next">> ELSE <<>>)
    \o (IF "debug-print" \in cfg THEN <<"env.debug_print">> ELSE <<>>)

SUPPORTED_IMPORTS_V1(cfg) ==
    << "env.db_read",
       "env.db_write",
       "env.db_remove",
       "env.addr_validate",
       "env.addr_canonicalize",
       "env.addr_humanize",
       "env.secp256k1_verify",
       "env.secp256k1_recover_pubkey",
       "env.secp256k1_sign",
       "env.ed25519_verify",
       "env.ed25519_batch_verify",
       "env.ed25519_sign",
       "env.dcap_quote_verify",
       "env.debug",
       "env.query_chain" >>
    \o (IF "iterator" \in cfg THEN <<"env.db_scan", "env.db_next">> ELSE <<>>)
    \o << "env.gas_evaporate", "env.check_gas" >>

REQUIRED_EXPORTS_V010 ==
    << "cosmwasm_vm_version_3", "query", "init", "handle", "allocate", "deallocate" >>

REQUIRED_EXPORTS_V1 ==
    << "interface_version_8", "allocate", "deallocate", "instantiate" >>

REQUIRED_IBC_EXPORTS ==
    << "ibc_channel_open", "ibc_channel_connect", "ibc_channel_close",
       "ibc_packet_receive", "ibc_packet_ack", "ibc_packet_timeout" >>

MEMORY_LIMIT == 512

(***************************************************************************)
(* The deserialized module (parity_wasm::elements::Module), reduced to the *)
(* three sections the checks read:                                         *)
(*   memory_section : None or Some(sequence of [initial, maximum])         *)
(*   export_section : None or Some(sequence of [field])                    *)
(*   import_section : None or Some(sequence of [module, field, external])  *)
(***************************************************************************)
MemoryType(initial, maximum) == [initial |-> initial, maximum |-> maximum]
ExportEntry(field) == [field |-> field]
ImportEntry(module, field, external) ==
    [module |-> module, field |-> field, external |-> external]

(***************************************************************************)
(* check_wasm_memories                                                     *)
(***************************************************************************)
\* mutant: the ceiling is exclusive
check_wasm_memories_exclusive(module) ==
    IF module.memory_section = None
    THEN Err(static_validation_err("Wasm contract doesn't have a memory section"))
    ELSE LET memories == module.memory_section[2] IN
         IF Len(memories) # 1
         THEN Err(static_validation_err("Wasm contract must contain exactly one memory"))
         ELSE LET limits == memories[1] IN
              IF limits.initial >= MEMORY_LIMIT
              THEN Err(static_validation_err(
                       "Wasm contract memory's minimum must not exceed "
                       \o ToString(MEMORY_LIMIT) \o " pages."))
              ELSE IF limits.maximum # None
              THEN Err(static_validation_err(
                       "Wasm contract memory's maximum must be unset. The host will set it for you."))
              ELSE Ok

\* mutant: the maximum is checked before the initial size
check_wasm_memories_maximum_first(module) ==
    IF module.memory_section = None
    THEN Err(static_validation_err("Wasm contract doesn't have a memory section"))
    ELSE LET memories == module.memory_section[2] IN
         IF Len(memories) # 1
         THEN Err(static_validation_err("Wasm contract must contain exactly one memory"))
         ELSE LET limits == memories[1] IN
              IF limits.maximum # None
              THEN Err(static_validation_err(
                       "Wasm contract memory's maximum must be unset. The host will set it for you."))
              ELSE IF limits.initial > MEMORY_LIMIT
              THEN Err(static_validation_err(
                       "Wasm contract memory's minimum must not exceed "
                       \o ToString(MEMORY_LIMIT) \o " pages."))
              ELSE Ok

check_wasm_memories(module) ==
    IF module.memory_section = None
    THEN Err(static_validation_err("Wasm contract doesn't have a memory section"))
    ELSE LET memories == module.memory_section[2] IN
         IF Len(memories) # 1
         THEN Err(static_validation_err("Wasm contract must contain exactly one memory"))
         ELSE LET limits == memories[1] IN
              IF limits.initial > MEMORY_LIMIT
              THEN Err(static_validation_err(
                       "Wasm contract memory's minimum must not exceed "
                       \o ToString(MEMORY_LIMIT) \o " pages."))
              ELSE IF limits.maximum # None
              THEN Err(static_validation_err(
                       "Wasm contract memory's maximum must be unset. The host will set it for you."))
              ELSE Ok

(***************************************************************************)
(* check_wasm_exports                                                      *)
(***************************************************************************)
available_exports(module) ==
    IF module.export_section = None
    THEN <<>>
    ELSE LET entries == module.export_section[2] IN
         [i \in 1..Len(entries) |-> entries[i].field]

\* mutant: the last missing required export is reported instead of the first
RECURSIVE check_required_exports_last(_, _, _)
check_required_exports_last(i, available, required_exports) ==
    IF i > Len(required_exports) THEN Ok
    ELSE LET rest == check_required_exports_last(i + 1, available, required_exports) IN
         IF is_err(rest) \/ contains(available, required_exports[i]) THEN rest
         ELSE Err(static_validation_err(
                  "Wasm contract doesn't have required export: \"" \o required_exports[i]
                  \o "\". Exports required by VM: " \o debug_list(required_exports) \o "."))

RECURSIVE check_required_exports_from(_, _, _)
check_required_exports_from(i, available, required_exports) ==
    IF i > Len(required_exports) THEN Ok
    ELSE IF ~contains(available, required_exports[i])
    THEN Err(static_validation_err(
             "Wasm contract doesn't have required export: \"" \o required_exports[i]
             \o "\". Exports required by VM: " \o debug_list(required_exports) \o "."))
    ELSE check_required_exports_from(i + 1, available, required_exports)

check_wasm_exports(module, required_exports) ==
    check_required_exports_from(1, available_exports(module), required_exports)

(***************************************************************************)
(* check_wasm_imports                                                      *)
(***************************************************************************)
required_imports(module) ==
    IF module.import_section = None THEN <<>> ELSE module.import_section[2]

full_name(required_import) == required_import.module \o "." \o required_import.field

\* mutant: the kind of an import is checked before its name
RECURSIVE check_required_imports_kind_first(_, _, _)
check_required_imports_kind_first(i, imports, supported_imports) ==
    IF i > Len(imports) THEN Ok
    ELSE IF imports[i].external # "Function"
    THEN Err(static_validation_err(
             "Wasm contract requires non-function import: \"" \o full_name(imports[i])
             \o "\". Right now, all supported imports are functions."))
    ELSE IF ~contains(supported_imports, full_name(imports[i]))
    THEN Err(static_validation_err(
             "Wasm contract requires unsupported import: \"" \o full_name(imports[i])
             \o "\". Imports supported by VM: " \o debug_list(supported_imports) \o "."))
    ELSE check_required_imports_kind_first(i + 1, imports, supported_imports)

RECURSIVE check_required_imports_from(_, _, _)
check_required_imports_from(i, imports, supported_imports) ==
    IF i > Len(imports) THEN Ok
    ELSE IF ~contains(supported_imports, full_name(imports[i]))
    THEN Err(static_validation_err(
             "Wasm contract requires unsupported import: \"" \o full_name(imports[i])
             \o "\". Imports supported by VM: " \o debug_list(supported_imports) \o "."))
    ELSE IF imports[i].external # "Function"
    THEN Err(static_validation_err(
             "Wasm contract requires non-function import: \"" \o full_name(imports[i])
             \o "\". Right now, all supported imports are functions."))
    ELSE check_required_imports_from(i + 1, imports, supported_imports)

check_wasm_imports(module, supported_imports) ==
    check_required_imports_from(1, required_imports(module), supported_imports)

(***************************************************************************)
(* check_wasm_features                                                     *)
(***************************************************************************)
REQUIRES_PREFIX == "requires_"

\* crate::features::required_features_from_module: the suffixes of the
\* exports that carry the prefix (an empty suffix names no feature)
required_features_from_module(module) ==
    LET names == Range(available_exports(module)) IN
    { SubSeq(n, Len(REQUIRES_PREFIX) + 1, Len(n)) :
        n \in { m \in names : /\ starts_with(m, REQUIRES_PREFIX)
                              /\ Len(m) > Len(REQUIRES_PREFIX) } }

\* BTreeSet::insert into the ascending sequence of a BTreeSet
RECURSIVE btree_insert(_, _)
btree_insert(sorted, x) ==
    IF Len(sorted) = 0 THEN <<x>>
    ELSE IF Head(sorted) = x THEN sorted
    ELSE IF str_lt(x, Head(sorted)) THEN <<x>> \o sorted
    ELSE <<Head(sorted)>> \o btree_insert(Tail(sorted), x)

\* mutant: the elements are kept in the order the iterator yields them
vec_from_iter(iter) == iter

\* BTreeSet::from_iter over the elements in the order the iterator yields them
RECURSIVE btree_from_iter(_)
btree_from_iter(iter) ==
    IF Len(iter) = 0 THEN <<>>
    ELSE btree_insert(btree_from_iter(SubSeq(iter, 1, Len(iter) - 1)), iter[Len(iter)])

\* mutant: the difference is printed as the hash set yields it
check_wasm_features_unsorted(module, supported_features, difference_iter) ==
    LET required_features == required_features_from_module(module) IN
    IF ~(required_features \subseteq supported_features)
    THEN Err(static_validation_err(
             "Wasm contract requires unsupported features: " \o debug_set(difference_iter)))
    ELSE Ok

\* mutant: every export name is taken for a required feature
check_wasm_features_all_exports(module, supported_features, difference_iter) ==
    LET required_features == Range(available_exports(module)) IN
    IF ~(required_features \subseteq supported_features)
    THEN LET unsupported == btree_from_iter(difference_iter) IN
         Err(static_validation_err(
             "Wasm contract requires unsupported features: " \o debug_set(unsupported)))
    ELSE Ok

\* difference_iter is the order in which HashSet::difference yields
\* required_features - supported_features (any order: the hasher is seeded)
check_wasm_features(module, supported_features, difference_iter) ==
    LET required_features == required_features_from_module(module) IN
    IF ~(required_features \subseteq supported_features)
    THEN LET unsupported == btree_from_iter(difference_iter) IN
         Err(static_validation_err(
             "Wasm contract requires unsupported features: " \o debug_set(unsupported)))
    ELSE Ok

difference(required_features, supported_features) ==
    required_features \ supported_features

(***************************************************************************)
(* Bytecode and deserialization.  parity_wasm is an external library: the  *)
(* bytecode is modelled by whether its header is intact and by the         *)
(* sections it encodes; deserialize_buffer fails on a broken header and    *)
(* otherwise yields the Module of the encoded sections.                    *)
(***************************************************************************)
WasmCode(magic, memory_section, export_section, import_section) ==
    [magic |-> magic, memory_section |-> memory_section,
     export_section |-> export_section, import_section |-> import_section]

Module(memory_section, export_section, import_section) ==
    [memory_section |-> memory_section, export_section |-> export_section,
     import_section |-> import_section]

deserialize_buffer(code) ==
    IF code.magic
    THEN <<"Ok", Module(code.memory_section, code.export_section, code.import_section)>>
    ELSE <<"Err", "Invalid magic number; wrong file?">>

(***************************************************************************)
(* State.  Every caller of check_wasm has its own arguments and locals;    *)
(* there is no variable shared between callers except the build            *)
(* configuration, which never changes.                                     *)
(***************************************************************************)
VARIABLES
    build,                      \* enabled cargo features
    pc,                         \* pc[c]: next statement of caller c's check_wasm
    wasm_code,                  \* argument wasm_code
    supported_features,         \* argument supported_features
    module,                     \* local: the deserialized module
    check_v010_exports_result,  \* local
    check_v010_imports_result,  \* local
    check_v1_exports_result,    \* local
    check_v1_imports_result,    \* local
    ret,                        \* value returned by the last finished call
    stages,                     \* history: statements executed by the current call
    unit                        \* last direct call of one validator

vars == <<build, pc, wasm_code, supported_features, module,
          check_v010_exports_result, check_v010_imports_result,
          check_v1_exports_result, check_v1_imports_result, ret, stages, unit>>

locals == <<module, check_v010_exports_result, check_v010_imports_result,
            check_v1_exports_result, check_v1_imports_result>>

Callers == {"a", "b"}
MainCaller == "a"

Unset == <<"Unset">>
NoUnit == [fn |-> "none"]

Init ==
    /\ build \in SUBSET CargoFeatures
    /\ pc = [c \in Callers |-> "idle"]
    /\ wasm_code = [c \in Callers |-> Unset]
    /\ supported_features = [c \in Callers |-> {}]
    /\ module = [c \in Callers |-> Unset]
    /\ check_v010_exports_result = [c \in Callers |-> Unset]
    /\ check_v010_imports_result = [c \in Callers |-> Unset]
    /\ check_v1_exports_result = [c \in Callers |-> Unset]
    /\ check_v1_imports_result = [c \in Callers |-> Unset]
    /\ ret = [c \in Callers |-> Unset]
    /\ stages = [c \in Callers |-> <<>>]
    /\ unit = NoUnit

(***************************************************************************)
(* check_wasm, statement by statement.                                     *)
(***************************************************************************)
Return(c, value) ==
    /\ ret' = [ret EXCEPT ![c] = value]
    /\ pc' = [pc EXCEPT ![c] = "done"]

Goto(c, label) ==
    /\ pc' = [pc EXCEPT ![c] = label]
    /\ UNCHANGED ret

Executed(c, stage) == stages' = [stages EXCEPT ![c] = Append(@, stage)]

\* a caller enters check_wasm(code, features)
Call(c, code, features) ==
    /\ pc[c] \in {"idle", "done"}
    /\ wasm_code' = [wasm_code EXCEPT ![c] = code]
    /\ supported_features' = [supported_features EXCEPT ![c] = features]
    /\ module' = [module EXCEPT ![c] = Unset]
    /\ check_v010_exports_result' = [check_v010_exports_result EXCEPT ![c] = Unset]
    /\ check_v010_imports_result' = [check_v010_imports_result EXCEPT ![c] = Unset]
    /\ check_v1_exports_result' = [check_v1_exports_result EXCEPT ![c] = Unset]
    /\ check_v1_imports_result' = [check_v1_imports_result EXCEPT ![c] = Unset]
    /\ ret' = [ret EXCEPT ![c] = Unset]
    /\ stages' = [stages EXCEPT ![c] = <<>>]
    /\ pc' = [pc EXCEPT ![c] = "deserialize"]
    /\ UNCHANGED <<build, unit>>

Deserialize(c) ==
    /\ pc[c] = "deserialize"
    /\ LET deserialized == deserialize_buffer(wasm_code[c]) IN
       IF deserialized[1] = "Ok"
       THEN /\ module' = [module EXCEPT ![c] = deserialized[2]]
            /\ Goto(c, "check_wasm_memories")
       ELSE /\ Return(c, Err(static_validation_err(
                   "Wasm bytecode could not be deserialized. Deserialization error: \""
                   \o deserialized[2] \o "\"")))
            /\ UNCHANGED module
    /\ Executed(c, "deserialize")
    /\ UNCHANGED <<build, wasm_code, supported_features, check_v010_exports_result,
                   check_v010_imports_result, check_v1_exports_result,
                   check_v1_imports_result, unit>>

\* mutant: a memory error does not end the call
CheckMemories_continue(c) ==
    /\ pc[c] = "check_wasm_memories"
    /\ Goto(c, "check_wasm_features")
    /\ Executed(c, "check_wasm_memories")
    /\ UNCHANGED <<build, wasm_code, supported_features, locals, unit>>

CheckMemories(c) ==
    /\ pc[c] = "check_wasm_memories"
    /\ LET result == check_wasm_memories(module[c]) IN
       IF is_err(result) THEN Return(c, result) ELSE Goto(c, "check_wasm_features")
    /\ Executed(c, "check_wasm_memories")
    /\ UNCHANGED <<build, wasm_code, supported_features, locals, unit>>

CheckFeatures(c) ==
    /\ pc[c] = "check_wasm_features"
    /\ \E difference_iter \in IterOrders(difference(
              required_features_from_module(module[c]), supported_features[c])) :
         LET result == check_wasm_features(module[c], supported_features[c], difference_iter) IN
         IF is_err(result) THEN Return(c, result) ELSE Goto(c, "trial_v010")
    /\ Executed(c, "check_wasm_features")
    /\ UNCHANGED <<build, wasm_code, supported_features, locals, unit>>

TrialV010(c) ==
    /\ pc[c] = "trial_v010"
    /\ check_v010_exports_result' = [check_v010_exports_result EXCEPT ![c] =
           check_wasm_exports(module[c], REQUIRED_EXPORTS_V010)]
    /\ check_v010_imports_result' = [check_v010_imports_result EXCEPT ![c] =
           check_wasm_imports(module[c], SUPPORTED_IMPORTS_V010(build))]
    /\ Goto(c, "trial_v1")
    /\ Executed(c, "trial_v010")
    /\ UNCHANGED <<build, wasm_code, supported_features, module,
                   check_v1_exports_result, check_v1_imports_result, unit>>

TrialV1(c) ==
    /\ pc[c] = "trial_v1"
    /\ check_v1_exports_result' = [check_v1_exports_result EXCEPT ![c] =
           check_wasm_exports(module[c], REQUIRED_EXPORTS_V1)]
    /\ check_v1_imports_result' = [check_v1_imports_result EXCEPT ![c] =
           check_wasm_imports(module[c], SUPPORTED_IMPORTS_V1(build))]
    /\ Goto(c, "decide")
    /\ Executed(c, "trial_v1")
    /\ UNCHANGED <<build, wasm_code, supported_features, module,
                   check_v010_exports_result, check_v010_imports_result, unit>>

\* {:?} of a VmResult<()>; VmError is defined in crate::errors
debug_result(r) ==
    IF is_ok(r) THEN "Ok(())"
    ELSE "Err(StaticValidationErr { msg: " \o debug_str(msg_of(r)) \o " })"

debug_results(errors) ==
    "[" \o join_debug([i \in 1..Len(errors) |-> debug_result(errors[i])]) \o "]"

NOT_COSMWASM ==
    "Contract is not CosmWasm v0.10 or v1. To support v0.10 please fix the former two errors, to supports v1 please fix the latter two errors: $"

\* mutant: a generation passes when either of its two checks passes
verdict_either(v010_exports, v010_imports, v1_exports, v1_imports) ==
    LET is_v010 == is_ok(v010_exports) \/ is_ok(v010_imports)
        is_v1 == is_ok(v1_exports) \/ is_ok(v1_imports)
    IN  IF ~is_v010 /\ ~is_v1
        THEN LET errors == <<v010_exports, v010_imports, v1_exports, v1_imports>> IN
             Err(static_validation_err(NOT_COSMWASM \o debug_results(errors)))
        ELSE Ok

\* mutant: only the failed checks are listed
verdict_errors_only(v010_exports, v010_imports, v1_exports, v1_imports) ==
    LET is_v010 == is_ok(v010_exports) /\ is_ok(v010_imports)
        is_v1 == is_ok(v1_exports) /\ is_ok(v1_imports)
    IN  IF ~is_v010 /\ ~is_v1
        THEN LET errors == SelectSeq(<<v010_exports, v010_imports, v1_exports, v1_imports>>,
                                     is_err) IN
             Err(static_validation_err(NOT_COSMWASM \o debug_results(errors)))
        ELSE Ok

\* is_v010, is_v1 and the returned value
verdict(v010_exports, v010_imports, v1_exports, v1_imports) ==
    LET is_v010 == is_ok(v010_exports) /\ is_ok(v010_imports)
        is_v1 == is_ok(v1_exports) /\ is_ok(v1_imports)
    IN  IF ~is_v010 /\ ~is_v1
        THEN LET errors == <<v010_exports, v010_imports, v1_exports, v1_imports>> IN
             Err(static_validation_err(NOT_COSMWASM \o debug_results(errors)))
        ELSE Ok

Decide(c) ==
    /\ pc[c] = "decide"
    /\ Return(c, verdict(check_v010_exports_result[c], check_v010_imports_result[c],
                         check_v1_exports_result[c], check_v1_imports_result[c]))
    /\ Executed(c, "decide")
    /\ UNCHANGED <<build, wasm_code, supported_features, locals, unit>>

(***************************************************************************)
(* Inputs of check_wasm.                                                   *)
(***************************************************************************)
Entries(names) == [i \in 1..Len(names) |-> ExportEntry(names[i])]

MemoryTypes ==
    { MemoryType(initial, maximum) :
        initial \in {MEMORY_LIMIT, MEMORY_LIMIT + 1},
        maximum \in {None, Some(MEMORY_LIMIT)} }

MemorySections == {None} \cup { Some(m) : m \in SeqsUpTo(MemoryTypes, MaxMemories) }

ExportSections ==
    {None} \cup
    { Some(Entries(names)) : names \in {
        <<"add_one">>,
        REQUIRED_EXPORTS_V010,
        REQUIRED_EXPORTS_V1,
        REQUIRED_EXPORTS_V1 \o REQUIRED_EXPORTS_V010,
        Tail(REQUIRED_EXPORTS_V010),
        <<"requires_water">> \o REQUIRED_EXPORTS_V010,
        REQUIRED_EXPORTS_V1 \o <<"requires_water", "requires_sun">>,
        <<"requires_sun", "add_one", "requires_water">> } }

ImportEntries ==
    { ImportEntry("env", "db_read", "Function"),
      ImportEntry("env", "db_read", "Memory"),
      ImportEntry("env", "canonicalize_address", "Function"),
      ImportEntry("env", "addr_validate", "Function"),
      ImportEntry("env", "db_scan", "Function") }

ImportSections == {None} \cup { Some(i) : i \in SeqsUpTo(ImportEntries, MaxImports) }

\* bytecode with an intact header, and bytecode with a broken one (whose
\* remaining bytes are any memory section around fixed other sections)
WasmCodes ==
    { WasmCode(TRUE, m, e, i) :
        m \in MemorySections, e \in ExportSections, i \in ImportSections }
    \cup
    { WasmCode(FALSE, m, Some(Entries(REQUIRED_EXPORTS_V010)), None) : m \in MemorySections }

FeatureSets == { {"staking"}, {"staking", "water"}, {"staking", "water", "sun"} }

(***************************************************************************)
(* Spec: one call of check_wasm on any input.                              *)
(***************************************************************************)
FirstCall(c) ==
    /\ pc[c] = "idle"
    /\ \E code \in WasmCodes, features \in FeatureSets : Call(c, code, features)

Next ==
    \/ FirstCall(MainCaller)
    \/ Deserialize(MainCaller)
    \/ CheckMemories(MainCaller)
    \/ CheckFeatures(MainCaller)
    \/ TrialV010(MainCaller)
    \/ TrialV1(MainCaller)
    \/ Decide(MainCaller)

Spec == Init /\ [][Next]_vars

(***************************************************************************)
(* FairSpec: one call of check_wasm, which runs on to its return: the call *)
(* is a synchronous chain of statements without suspension point.          *)
(***************************************************************************)
StageCodes ==
    { WasmCode(magic, m, e, i) :
        magic \in BOOLEAN,
        m \in { None,
                Some(<<MemoryType(MEMORY_LIMIT, None)>>),
                Some(<<MemoryType(MEMORY_LIMIT + 1, Some(MEMORY_LIMIT))>>) },
        e \in { Some(Entries(REQUIRED_EXPORTS_V010)),
                Some(Entries(<<"add_one">>)),
                Some(Entries(<<"requires_water">> \o REQUIRED_EXPORTS_V010)),
                Some(Entries(REQUIRED_EXPORTS_V1 \o <<"requires_water", "requires_sun">>)) },
        i \in { None,
                Some(<<ImportEntry("env", "addr_validate", "Function")>>),
                Some(<<ImportEntry("env", "db_scan", "Function")>>) } }

StageCall(c) ==
    /\ pc[c] = "idle"
    /\ \E code \in StageCodes, features \in FeatureSets : Call(c, code, features)

Run(c) ==
    \/ Deserialize(c)
    \/ CheckMemories(c)
    \/ CheckFeatures(c)
    \/ TrialV010(c)
    \/ TrialV1(c)
    \/ Decide(c)

StageNext == StageCall(MainCaller) \/ Run(MainCaller)

FairSpec == Init /\ [][StageNext]_vars /\ WF_vars(Run(MainCaller))

(***************************************************************************)
(* UnitSpec: one validator called directly on any input, as the unit tests *)
(* call them.                                                              *)
(***************************************************************************)
UnitCall(fn, m, arg, iter, result) ==
    /\ unit' = [fn |-> fn, module |-> m, arg |-> arg, iter |-> iter, ret |-> result]
    /\ UNCHANGED <<build, pc, wasm_code, supported_features, locals, ret, stages>>

UnitMemoryTypes ==
    MemoryTypes \cup { MemoryType(1, None), MemoryType(1, Some(5)) }

UnitMemorySections ==
    {None} \cup { Some(m) : m \in SeqsUpTo(UnitMemoryTypes, MaxMemories) }

TestMemories ==
    /\ unit = NoUnit
    /\ \E m \in UnitMemorySections :
        LET mod == Module(m, None, None) IN
        UnitCall("check_wasm_memories", mod, <<>>, <<>>, check_wasm_memories(mod))

UnitExportNames == {"cosmwasm_vm_version_3", "query", "Query", "add_one"}

UnitExportSections ==
    ExportSections \cup
    { Some(Entries(names)) : names \in SeqsUpTo(UnitExportNames, MaxExports) }

RequiredExportLists ==
    SeqsUpTo(UnitExportNames, MaxExports)
    \cup {REQUIRED_EXPORTS_V010, REQUIRED_EXPORTS_V1, REQUIRED_IBC_EXPORTS}

TestExports ==
    /\ unit = NoUnit
    /\ \E e \in UnitExportSections, required_exports \in RequiredExportLists :
        LET mod == Module(None, e, None) IN
        UnitCall("check_wasm_exports", mod, required_exports, <<>>,
                 check_wasm_exports(mod, required_exports))

UnitImportEntries ==
    { ImportEntry("env", field, external) :
        field \in {"db_read", "canonicalize_address", "addr_validate", "db_scan"},
        external \in {"Function", "Memory"} }
    \cup { ImportEntry("host", "db_read", "Function"),
           ImportEntry("env", "db_read", "Table"),
           ImportEntry("env", "db_read", "Global") }

UnitImportSections ==
    {None} \cup { Some(i) : i \in SeqsUpTo(UnitImportEntries, MaxImports) }

SupportedImportLists ==
    { SUPPORTED_IMPORTS_V010(build), SUPPORTED_IMPORTS_V1(build), <<>>, <<"host.db_read">> }

TestImports ==
    /\ unit = NoUnit
    /\ \E i \in UnitImportSections, supported_imports \in SupportedImportLists :
        LET mod == Module(None, None, i) IN
        UnitCall("check_wasm_imports", mod, supported_imports, <<>>,
                 check_wasm_imports(mod, supported_imports))

FeatureExportNames ==
    {"requires_water", "requires_nutrients", "requires_sun",
     "requires_", "require_milk", "REQUIRES_air"}

\* the module of check_wasm_features_ok and check_wasm_features_fails_for_missing
FEATURES_TEST_EXPORTS ==
    << "requires_water", "requires_", "requires_nutrients",
       "require_milk", "REQUIRES_air", "requires_sun" >>

FeatureExportSections ==
    {None, Some(Entries(FEATURES_TEST_EXPORTS))} \cup
    { Some(Entries(names)) : names \in SeqsUpTo(FeatureExportNames, MaxExports) }

UnitFeatureSets == SUBSET {"water", "nutrients", "sun", "freedom", "Water"}

TestFeatures ==
    /\ unit = NoUnit
    /\ \E e \in FeatureExportSections, features \in UnitFeatureSets :
        LET mod == Module(None, e, None) IN
        \E difference_iter \in IterOrders(difference(
               required_features_from_module(mod), features)) :
            UnitCall("check_wasm_features", mod, features, difference_iter,
                     check_wasm_features(mod, features, difference_iter))

UnitNext == TestMemories \/ TestExports \/ TestImports \/ TestFeatures

UnitSpec == Init /\ [][UnitNext]_vars

(***************************************************************************)
(* ConcurrentSpec: two callers, each calling check_wasm again and again,   *)
(* their statements interleaved in any order.                              *)
(***************************************************************************)
OneMemory == Some(<<MemoryType(MEMORY_LIMIT, None)>>)

ConcurrentCodes ==
    { WasmCode(FALSE, OneMemory, Some(Entries(REQUIRED_EXPORTS_V010)), None),
      WasmCode(TRUE, None, Some(Entries(REQUIRED_EXPORTS_V010)), None),
      WasmCode(TRUE, OneMemory, Some(Entries(REQUIRED_EXPORTS_V010)), None),
      WasmCode(TRUE, OneMemory, Some(Entries(<<"add_one">>)),
               Some(<<ImportEntry("env", "db_scan", "Function")>>)),
      WasmCode(TRUE, OneMemory,
               Some(Entries(REQUIRED_EXPORTS_V1 \o <<"requires_water", "requires_sun">>)),
               Some(<<ImportEntry("env", "addr_validate", "Function")>>)) }

ConcurrentFeatureSets == { {}, {"staking", "water", "sun"} }

AnyCall(c) ==
    \E code \in ConcurrentCodes, features \in ConcurrentFeatureSets :
        Call(c, code, features)

Step(c) ==
    \/ AnyCall(c)
    \/ Deserialize(c)
    \/ CheckMemories(c)
    \/ CheckFeatures(c)
    \/ TrialV010(c)
    \/ TrialV1(c)
    \/ Decide(c)

ConcurrentNext == \E c \in Callers : Step(c)

ConcurrentSpec == Init /\ [][ConcurrentNext]_vars

(***************************************************************************)
(* Vocabulary of the properties, stated on the module itself.              *)
(***************************************************************************)
Done(c) == pc[c] = "done"
Deserialized(c) == wasm_code[c].magic
Rejected(c) == Done(c) /\ is_err(ret[c])
Accepted(c) == Done(c) /\ is_ok(ret[c])

MemoryEntries(m) == IF m.memory_section = None THEN <<>> ELSE m.memory_section[2]

MemoryPasses(m) ==
    /\ m.memory_section # None
    /\ Len(MemoryEntries(m)) = 1
    /\ MemoryEntries(m)[1].initial <= 512
    /\ MemoryEntries(m)[1].maximum = None

DeclaresMaximum(m) ==
    \E i \in 1..Len(MemoryEntries(m)) : MemoryEntries(m)[i].maximum # None

ExportNames(m) ==
    IF m.export_section = None THEN {}
    ELSE { m.export_section[2][i].field : i \in 1..Len(m.export_section[2]) }

DeclaredImports(m) == IF m.import_section = None THEN <<>> ELSE m.import_section[2]

QualifiedName(import) == import.module \o "." \o import.field

ExportsPresent(m, required) == \A i \in 1..Len(required) : required[i] \in ExportNames(m)

ImportsSupported(m, supported) ==
    \A i \in 1..Len(DeclaredImports(m)) :
        /\ QualifiedName(DeclaredImports(m)[i]) \in Range(supported)
        /\ DeclaredImports(m)[i].external = "Function"

ProfilePasses(m, required, supported) ==
    ExportsPresent(m, required) /\ ImportsSupported(m, supported)

PassesV010(m) == ProfilePasses(m, REQUIRED_EXPORTS_V010, SUPPORTED_IMPORTS_V010(build))
PassesV1(m) == ProfilePasses(m, REQUIRED_EXPORTS_V1, SUPPORTED_IMPORTS_V1(build))

FeaturesEnabled(c) ==
    required_features_from_module(module[c]) \subseteq supported_features[c]

MSG_NO_MEMORY_SECTION == "Wasm contract doesn't have a memory section"
MSG_ONE_MEMORY == "Wasm contract must contain exactly one memory"
MSG_MINIMUM == "Wasm contract memory's minimum must not exceed 512 pages."
MSG_MAXIMUM == "Wasm contract memory's maximum must be unset."
MSG_DESERIALIZE == "Wasm bytecode could not be deserialized."
MSG_FEATURES == "Wasm contract requires unsupported features: "

(***************************************************************************)
(* C1: check_wasm accepts a deserialized module if and only if the memory  *)
(* check passes (exactly one memory, initial <= 512 pages, no maximum),    *)
(* the required features are all enabled, and at least one generation     *)
(* profile passes, a profile passing only when its required exports are    *)
(* all present and every import is a function of that profile's list.      *)
(***************************************************************************)
C1_AcceptIff ==
    (Done(MainCaller) /\ Deserialized(MainCaller)) =>
        ( is_ok(ret[MainCaller]) <=>
            /\ MemoryPasses(module[MainCaller])
            /\ FeaturesEnabled(MainCaller)
            /\ (PassesV010(module[MainCaller]) \/ PassesV1(module[MainCaller])) )

\* accepted on the strength of v1 alone, while v0.10 fails
C1_Witness ==
    /\ Accepted(MainCaller)
    /\ PassesV1(module[MainCaller])
    /\ ~PassesV010(module[MainCaller])
    /\ DeclaredImports(module[MainCaller]) # <<>>

(***************************************************************************)
(* C2: check_wasm_imports succeeds iff every declared import has its       *)
(* name "module.field" in the supported list and is a function (no import  *)
(* section: success).  On failure the error names the first offending      *)
(* import in declaration order, and for that import the name check comes   *)
(* first: an unlisted name gives "unsupported import" whatever the kind, a *)
(* listed name of another kind gives "non-function import".                *)
(***************************************************************************)
Offending(imports, supported) ==
    { i \in 1..Len(imports) :
        \/ QualifiedName(imports[i]) \notin Range(supported)
        \/ imports[i].external # "Function" }

Least(S) == CHOOSE i \in S : \A j \in S : i <= j

C3_MemoryOrder ==
    (unit.fn = "check_wasm_memories") =>
        LET m == unit.module
            entries == MemoryEntries(m)
        IN  IF m.memory_section = None
            THEN is_err(unit.ret) /\ starts_with(msg_of(unit.ret), MSG_NO_MEMORY_SECTION)
            ELSE IF Len(entries) # 1
            THEN is_err(unit.ret) /\ starts_with(msg_of(unit.ret), MSG_ONE_MEMORY)
            ELSE IF entries[1].initial > 512
            THEN is_err(unit.ret) /\ starts_with(msg_of(unit.ret), MSG_MINIMUM)
            ELSE IF entries[1].maximum # None
            THEN is_err(unit.ret) /\ starts_with(msg_of(unit.ret), MSG_MAXIMUM)
            ELSE is_ok(unit.ret)

\* 513 initial pages and a declared maximum: only the minimum is reported
C3_Witness ==
    /\ unit.fn = "check_wasm_memories"
    /\ Len(MemoryEntries(unit.module)) = 1
    /\ MemoryEntries(unit.module)[1].initial = 513
    /\ MemoryEntries(unit.module)[1].maximum # None
    /\ starts_with(msg_of(unit.ret), MSG_MINIMUM)

(***************************************************************************)
(* C4 as stated: every deserialized module whose memory declares a maximum *)
(* is rejected with a message starting "Wasm contract memory's maximum     *)
(* must be unset.", also with an initial size above 512 pages or with more *)
(* than one memory entry.                                                  *)
(***************************************************************************)
C4_Original ==
    (Done(MainCaller) /\ Deserialized(MainCaller) /\ DeclaresMaximum(module[MainCaller])) =>
        /\ is_err(ret[MainCaller])
        /\ starts_with(msg_of(ret[MainCaller]), MSG_MAXIMUM)

(***************************************************************************)
(* C4 amended: every deserialized module whose memory declares a maximum   *)
(* is rejected; the message starts "Wasm contract memory's maximum must be *)
(* unset." when the module has exactly one memory entry of at most 512     *)
(* initial pages, "Wasm contract memory's minimum must not exceed 512      *)
(* pages." when its single entry has more, and "Wasm contract must contain *)
(* exactly one memory" when it has several entries.                        *)
(***************************************************************************)
C4_Amended ==
    (Done(MainCaller) /\ Deserialized(MainCaller) /\ DeclaresMaximum(module[MainCaller])) =>
        LET entries == MemoryEntries(module[MainCaller]) IN
        /\ is_err(ret[MainCaller])
        /\ starts_with(msg_of(ret[MainCaller]),
               IF Len(entries) # 1 THEN MSG_ONE_MEMORY
               ELSE IF entries[1].initial > 512 THEN MSG_MINIMUM
               ELSE MSG_MAXIMUM)

\* a single memory of 512 pages with a maximum, rejected for the maximum
\* although features and generations would reject it too
C4_Witness ==
    /\ Rejected(MainCaller)
    /\ Deserialized(MainCaller)
    /\ MemoryEntries(module[MainCaller]) = <<MemoryType(512, Some(512))>>
    /\ ~FeaturesEnabled(MainCaller)
    /\ starts_with(msg_of(ret[MainCaller]), MSG_MAXIMUM)

(***************************************************************************)
(* C5: subset law of check_wasm_features.  With R the features the module  *)
(* requires and E the enabled ones, the check succeeds iff R is a subset   *)
(* of E; otherwise the message lists exactly R minus E in ascending order, *)
(* whatever order the sets are iterated in.  Comparison is case-sensitive: *)
(* required {water, nutrients, sun} against enabled {nutrients, freedom,   *)
(* Water} reports {"sun", "water"}.                                        *)
(***************************************************************************)
Ascending(S) ==
    CHOOSE o \in IterOrders(S) : \A i \in 1..Len(o), j \in 1..Len(o) :
        i < j => str_lt(o[i], o[j])

C5_SubsetLaw ==
    (unit.fn = "check_wasm_features") =>
        LET R == required_features_from_module(unit.module)
            E == unit.arg
        IN  /\ is_ok(unit.ret) <=> R \subseteq E
            /\ is_err(unit.ret) =>
                 msg_of(unit.ret) = MSG_FEATURES \o debug_set(Ascending(R \ E))
            /\ (R = {"water", "nutrients", "sun"} /\ E = {"nutrients", "freedom", "Water"}) =>
                 /\ is_err(unit.ret)
                 /\ msg_of(unit.ret) =
                      "Wasm contract requires unsupported features: {\"sun\", \"water\"}"

\* the example of the claim, with the difference iterated in descending order
C5_Witness ==
    /\ unit.fn = "check_wasm_features"
    /\ required_features_from_module(unit.module) = {"water", "nutrients", "sun"}
    /\ unit.arg = {"nutrients", "freedom", "Water"}
    /\ unit.iter = <<"water", "sun">>
    /\ msg_of(unit.ret) = "Wasm contract requires unsupported features: {\"sun\", \"water\"}"

(***************************************************************************)
(* C6: when check_wasm rejects a module that passes the memory and feature *)
(* checks, satisfies no generation and lacks the first v0.10 required      *)
(* export, the message it returns starts with                              *)
(*   Wasm contract doesn't have required export: "cosmwasm_vm_version_3"   *)
(***************************************************************************)
C6_TopLevelMessage ==
    ( /\ Rejected(MainCaller)
      /\ Deserialized(MainCaller)
      /\ MemoryPasses(module[MainCaller])
      /\ FeaturesEnabled(MainCaller)
      /\ ~PassesV010(module[MainCaller])
      /\ ~PassesV1(module[MainCaller])
      /\ "cosmwasm_vm_version_3" \notin ExportNames(module[MainCaller]) ) =>
        starts_with(msg_of(ret[MainCaller]),
            "Wasm contract doesn't have required export: \"cosmwasm_vm_version_3\"")

(***************************************************************************)
(* C7 as stated: whenever check_wasm rejects because neither generation    *)
(* passes, the diagnostic contains four per-generation errors: a v0.10     *)
(* export error, a v0.10 import error, a v1 export error and a v1 import   *)
(* error, in that order.                                                   *)
(***************************************************************************)
NoGeneration(c) ==
    /\ Rejected(c)
    /\ Deserialized(c)
    /\ MemoryPasses(module[c])
    /\ FeaturesEnabled(c)

ExportError(m, required) ==
    LET missing == { i \in 1..Len(required) : required[i] \notin ExportNames(m) } IN
    "Wasm contract doesn't have required export: \"" \o required[Least(missing)]
    \o "\". Exports required by VM: " \o debug_list(required) \o "."

ImportError(m, supported) ==
    LET first == DeclaredImports(m)[Least(Offending(DeclaredImports(m), supported))] IN
    IF QualifiedName(first) \notin Range(supported)
    THEN "Wasm contract requires unsupported import: \"" \o QualifiedName(first)
         \o "\". Imports supported by VM: " \o debug_list(supported) \o "."
    ELSE "Wasm contract requires non-function import: \"" \o QualifiedName(first)
         \o "\". Right now, all supported imports are functions."

RenderError(msg) == "Err(StaticValidationErr { msg: " \o debug_str(msg) \o " })"

C7_Original ==
    NoGeneration(MainCaller) =>
        LET m == module[MainCaller] IN
        /\ ~ExportsPresent(m, REQUIRED_EXPORTS_V010)
        /\ ~ImportsSupported(m, SUPPORTED_IMPORTS_V010(build))
        /\ ~ExportsPresent(m, REQUIRED_EXPORTS_V1)
        /\ ~ImportsSupported(m, SUPPORTED_IMPORTS_V1(build))
        /\ msg_of(ret[MainCaller]) = NOT_COSMWASM \o "["
              \o RenderError(ExportError(m, REQUIRED_EXPORTS_V010)) \o ", "
              \o RenderError(ImportError(m, SUPPORTED_IMPORTS_V010(build))) \o ", "
              \o RenderError(ExportError(m, REQUIRED_EXPORTS_V1)) \o ", "
              \o RenderError(ImportError(m, SUPPORTED_IMPORTS_V1(build))) \o "]"

(***************************************************************************)
(* C7 amended: whenever check_wasm rejects because neither generation      *)
(* passes, the diagnostic lists the four per-generation results in the     *)
(* order v0.10 exports, v0.10 imports, v1 exports, v1 imports; each is the *)
(* error of that check when it failed and Ok(()) when it passed, and at    *)
(* least one of the two results of each generation is an error.            *)
(***************************************************************************)
RenderExports(m, required) ==
    IF ExportsPresent(m, required) THEN "Ok(())"
    ELSE RenderError(ExportError(m, required))

RenderImports(m, supported) ==
    IF ImportsSupported(m, supported) THEN "Ok(())"
    ELSE RenderError(ImportError(m, supported))

C7_Amended ==
    NoGeneration(MainCaller) =>
        LET m == module[MainCaller] IN
        /\ ~ExportsPresent(m, REQUIRED_EXPORTS_V010)
              \/ ~ImportsSupported(m, SUPPORTED_IMPORTS_V010(build))
        /\ ~ExportsPresent(m, REQUIRED_EXPORTS_V1)
              \/ ~ImportsSupported(m, SUPPORTED_IMPORTS_V1(build))
        /\ msg_of(ret[MainCaller]) = NOT_COSMWASM \o "["
              \o RenderExports(m, REQUIRED_EXPORTS_V010) \o ", "
              \o RenderImports(m, SUPPORTED_IMPORTS_V010(build)) \o ", "
              \o RenderExports(m, REQUIRED_EXPORTS_V1) \o ", "
              \o RenderImports(m, SUPPORTED_IMPORTS_V1(build)) \o "]"

\* rejected with the v0.10 exports and the v1 imports in order: two of the
\* four listed results are Ok(())
C7_Witness ==
    /\ NoGeneration(MainCaller)
    /\ ExportsPresent(module[MainCaller], REQUIRED_EXPORTS_V010)
    /\ ~ImportsSupported(module[MainCaller], SUPPORTED_IMPORTS_V010(build))
    /\ ~ExportsPresent(module[MainCaller], REQUIRED_EXPORTS_V1)
    /\ ImportsSupported(module[MainCaller], SUPPORTED_IMPORTS_V1(build))

(***************************************************************************)
(* C8: check_wasm_exports succeeds iff every name of the required list is  *)
(* exactly the name of some export; extra exports are ignored, a module    *)
(* without export section has no exports, an empty required list always    *)
(* succeeds.  On failure the name reported is the first element of the     *)
(* required list that is missing, whatever the order of the exports.       *)
(***************************************************************************)
C8_Exports ==
    (unit.fn = "check_wasm_exports") =>
        LET required == unit.arg
            missing == { i \in 1..Len(required) : required[i] \notin ExportNames(unit.module) }
        IN  /\ is_ok(unit.ret) <=> missing = {}
            /\ required = <<>> => is_ok(unit.ret)
            /\ missing # {} =>
                 starts_with(msg_of(unit.ret),
                     "Wasm contract doesn't have required export: \""
                     \o required[Least(missing)] \o "\"")

\* two required names are missing and the exports hold a name that differs
\* from a required one by case only: the first missing one is reported
C8_Witness ==
    /\ unit.fn = "check_wasm_exports"
    /\ unit.arg = <<"query", "cosmwasm_vm_version_3">>
    /\ ExportNames(unit.module) = {"Query", "add_one"}
    /\ starts_with(msg_of(unit.ret), "Wasm contract doesn't have required export: \"query\"")

(***************************************************************************)
(* C9: check_wasm is a deterministic pure function of (bytecode, enabled   *)
(* features).  Two finished calls on identical inputs hold identical       *)
(* outcomes, however their statements were interleaved with each other and *)
(* with other calls and whatever was called before; a running call never   *)
(* changes its arguments; a statement of one call changes nothing that     *)
(* belongs to another call.                                                *)
(***************************************************************************)
SameInputs(c, d) ==
    /\ wasm_code[c] = wasm_code[d]
    /\ supported_features[c] = supported_features[d]

SameOutcome ==
    \A c \in Callers, d \in Callers :
        (Done(c) /\ Done(d) /\ SameInputs(c, d)) => ret[c] = ret[d]

Running(c) == pc[c] \notin {"idle", "done"}

InputsKept ==
    \A c \in Callers : Running(c) =>
        /\ wasm_code'[c] = wasm_code[c]
        /\ supported_features'[c] = supported_features[c]

FrameOf(c) ==
    <<pc[c], wasm_code[c], supported_features[c], module[c],
      check_v010_exports_result[c], check_v010_imports_result[c],
      check_v1_exports_result[c], check_v1_imports_result[c], ret[c]>>

NoInterference ==
    \A c \in Callers, d \in Callers :
        (c # d /\ FrameOf(c)' # FrameOf(c)) => FrameOf(d)' = FrameOf(d)

C9_Deterministic == []SameOutcome /\ [][InputsKept /\ NoInterference]_vars

\* both callers finished the same call, rejected for two missing features
C9_Witness ==
    /\ Done("a") /\ Done("b")
    /\ SameInputs("a", "b")
    /\ Deserialized("a")
    /\ supported_features["a"] = {}
    /\ required_features_from_module(module["a"]) = {"water", "sun"}
    /\ ret["a"] = ret["b"]
    /\ msg_of(ret["b"]) = "Wasm contract requires unsupported features: {\"sun\", \"water\"}"

(***************************************************************************)
(* C10 as stated: check_wasm runs its stages in the order deserialize,     *)
(* memory check, feature check, trial of v0.10, trial of v1, and ends in   *)
(* exactly one outcome.  A failing stage is terminal and masks the later   *)
(* ones: a deserialization failure yields only "Wasm bytecode could not be *)
(* deserialized."; a memory failure is reported even with unsupported      *)
(* features or a passing generation; an unsupported feature is reported    *)
(* even with a passing generation.  A failing generation alone is not      *)
(* fatal: it rejects only when the other fails too.  The memory check is   *)
(* performed exactly once per call.                                        *)
(***************************************************************************)
StageOrder ==
    << "deserialize", "check_wasm_memories", "check_wasm_features",
       "trial_v010", "trial_v1", "decide" >>

Times(c, stage) == Cardinality({ i \in 1..Len(stages[c]) : stages[c][i] = stage })

MemoryMessage(msg) ==
    \/ starts_with(msg, MSG_NO_MEMORY_SECTION)
    \/ starts_with(msg, MSG_ONE_MEMORY)
    \/ starts_with(msg, MSG_MINIMUM)
    \/ starts_with(msg, MSG_MAXIMUM)

StagesInOrder(c) ==
    /\ Len(stages[c]) <= Len(StageOrder)
    /\ stages[c] = SubSeq(StageOrder, 1, Len(stages[c]))

OneOutcome(c) ==
    IF Done(c) THEN is_ok(ret[c]) \/ is_err(ret[c]) ELSE ret[c] = Unset

Masking(c) ==
    Done(c) =>
        IF ~Deserialized(c)
        THEN /\ stages[c] = SubSeq(StageOrder, 1, 1)
             /\ is_err(ret[c]) /\ starts_with(msg_of(ret[c]), MSG_DESERIALIZE)
        ELSE IF ~MemoryPasses(module[c])
        THEN /\ stages[c] = SubSeq(StageOrder, 1, 2)
             /\ is_err(ret[c]) /\ MemoryMessage(msg_of(ret[c]))
        ELSE IF ~FeaturesEnabled(c)
        THEN /\ stages[c] = SubSeq(StageOrder, 1, 3)
             /\ is_err(ret[c]) /\ starts_with(msg_of(ret[c]), MSG_FEATURES)
        ELSE /\ stages[c] = StageOrder
             /\ is_err(ret[c]) <=> (~PassesV010(module[c]) /\ ~PassesV1(module[c]))
             /\ is_err(ret[c]) => starts_with(msg_of(ret[c]), NOT_COSMWASM)

C10_Original ==
    /\ StagesInOrder(MainCaller)
    /\ OneOutcome(MainCaller)
    /\ Masking(MainCaller)
    /\ Done(MainCaller) => Times(MainCaller, "check_wasm_memories") = 1

(***************************************************************************)
(* C10 amended: as stated, except that the memory check is performed at    *)
(* most once per call: exactly once in a call whose bytecode deserializes, *)
(* and not at all in a call whose bytecode does not.                       *)
(***************************************************************************)
C10_Stages ==
    /\ StagesInOrder(MainCaller)
    /\ OneOutcome(MainCaller)
    /\ Masking(MainCaller)
    /\ Times(MainCaller, "check_wasm_memories") <= 1
    /\ Done(MainCaller) =>
         Times(MainCaller, "check_wasm_memories") = (IF Deserialized(MainCaller) THEN 1 ELSE 0)

\* the outcome of a finished call stays
OutcomeKept ==
    Done(MainCaller) => (Done(MainCaller)' /\ ret'[MainCaller] = ret[MainCaller])

\* each statement of a running call is one further stage
OneStageFurther ==
    Running(MainCaller) => Len(stages'[MainCaller]) = Len(stages[MainCaller]) + 1

C10_Amended ==
    /\ []C10_Stages
    /\ [][OutcomeKept /\ OneStageFurther]_vars
    /\ Running(MainCaller) ~> Done(MainCaller)

\* a memory failure reported although a feature is unsupported and the
\* module would pass as v0.10
C10_Witness ==
    /\ Rejected(MainCaller)
    /\ Deserialized(MainCaller)
    /\ ~MemoryPasses(module[MainCaller])
    /\ ~FeaturesEnabled(MainCaller)
    /\ PassesV010(module[MainCaller])
    /\ MemoryMessage(msg_of(ret[MainCaller]))
    /\ Times(MainCaller, "check_wasm_memories") = 1

(***************************************************************************)
(* C11: feature derivation is a case-sensitive lexical prefix match on the *)
(* export names.  A feature f is required exactly when f is not empty and  *)
(* "requires_" followed by f is the name of an export: "require_milk",     *)
(* "REQUIRES_air" and the bare "requires_" contribute nothing.  Hence the  *)
(* module exporting requires_water, requires_, requires_nutrients,         *)
(* require_milk, REQUIRES_air and requires_sun requires exactly {water,    *)
(* nutrients, sun} and passes check_wasm_features with the enabled         *)
(* features {water, nutrients, sun, freedom}.                              *)
(***************************************************************************)
NameTails(names) == UNION { { SubSeq(n, k, Len(n)) : k \in 1..Len(n) } : n \in names }

DerivedFeatures(names) == { f \in NameTails(names) : ("requires_" \o f) \in names }

=============================================================================
